---- MODULE Spec2Model ----
(***************************************************************************)
(* wordcount: count(input, option) of src/src/lib.rs.                      *)
(*                                                                         *)
(* The input stream is a sequence of bytes (0..255).  A String is the      *)
(* sequence of its Unicode scalar values (integers), a HashMap<String,     *)
(* usize> is a function from such sequences to positive integers.          *)
(***************************************************************************)
EXTENDS Integers, Sequences, FiniteSets, TLC

\* ------------------------------------------------------------------ bounds
\* The longest input drawn from Alphabet.
MaxLen == 4

\* ------------------------------------------------------- bytes of interest
LF == 10
CR == 13

\* 'a', 'A', ' ', '\n', '\r', and the two bytes of U+0301 (0xCC 0x81), which
\* taken alone (a lone lead byte, a lone continuation byte) are malformed.
Alphabet == {97, 65, 32, LF, CR, 204, 129}

\* The inputs of the repository's tests and doc test, and some longer texts.
TestInputs ==
  { <<97,97,32,98,98,32,99,99,32,98,98>>,            \* "aa bb cc bb"
    <<97,97,32,99,99,32,100,100>>,                   \* "aa cc dd"
    <<97,98>>,                                       \* "ab"
    <<97,240,144,128,227,129,130>>,                  \* a F0 90 80 E3 81 82
    <<97,LF,97,CR,LF>>,                              \* "a\na\r\n"
    <<97,32,97,LF,240,144,LF,97>>,                   \* "a a\n" F0 90 "\na"
    <<97,95,49,45,65,204,129,32,227,129,130>>,       \* "a_1-A\u{301} \u{3042}"
    <<97,32,65,204,129,LF,97,32,65>>,                \* "a A\u{301}\na A"
    <<CR,LF,97,CR,LF,LF,97,CR>>,                     \* "\r\na\r\n\na\r"
    <<97,97,CR,LF,97,97,LF,65,65>>,                  \* "aa\r\naa\nAA"
    <<206,177,227,130,153,32,226,133,167,45,206,177>> }  \* "\u{3b1}\u{3099} \u{2167}-\u{3b1}"

RECURSIVE SeqsUpTo(_, _)
SeqsUpTo(S, n) ==
  IF n = 0 THEN { <<>> }
  ELSE LET shorter == SeqsUpTo(S, n - 1)
       IN  shorter \cup { Append(s, x) : s \in { t \in shorter : Len(t) = n - 1 }, x \in S }

Inputs == SeqsUpTo(Alphabet, MaxLen) \cup TestInputs

\* ------------------------------------------------------------ CountOption
CountOption == {"Char", "Word", "Line"}

\* fn default() -> Self { CountOption::Line }
CountOptionDefaultLine == "Line"

\* impl Default for CountOption
CountOptionDefault == "Word"

\* --------------------------------------------------- UTF-8 (String::from_utf8)
\* Length of the sequence a lead byte announces; 0 for a byte that cannot lead.
Utf8Width(b) ==
  IF b < 128 THEN 1
  ELSE IF b >= 194 /\ b <= 223 THEN 2
  ELSE IF b >= 224 /\ b <= 239 THEN 3
  ELSE IF b >= 240 /\ b <= 244 THEN 4
  ELSE 0

IsCont(b) == b >= 128 /\ b <= 191

\* The second byte's range depends on the lead byte (no overlong forms, no
\* surrogates, nothing above U+10FFFF).
SecondOk(b0, b1) ==
  IF b0 = 224 THEN b1 >= 160 /\ b1 <= 191
  ELSE IF b0 = 237 THEN b1 >= 128 /\ b1 <= 159
  ELSE IF b0 = 240 THEN b1 >= 144 /\ b1 <= 191
  ELSE IF b0 = 244 THEN b1 >= 128 /\ b1 <= 143
  ELSE IsCont(b1)

\* Is bytes[i .. i+w-1] one well-formed sequence?
WellFormedAt(bytes, i) ==
  LET w == Utf8Width(bytes[i])
  IN  /\ w > 0
      /\ i + w - 1 <= Len(bytes)
      /\ w >= 2 => SecondOk(bytes[i], bytes[i + 1])
      /\ \A k \in 2..(w - 1) : IsCont(bytes[i + k])

ScalarAt(bytes, i) ==
  LET w == Utf8Width(bytes[i])
  IN  IF w = 1 THEN bytes[i]
      ELSE IF w = 2 THEN (bytes[i] - 192) * 64 + (bytes[i + 1] - 128)
      ELSE IF w = 3 THEN (bytes[i] - 224) * 4096 + (bytes[i + 1] - 128) * 64
                         + (bytes[i + 2] - 128)
      ELSE (bytes[i] - 240) * 262144 + (bytes[i + 1] - 128) * 4096
           + (bytes[i + 2] - 128) * 64 + (bytes[i + 3] - 128)

RECURSIVE DecodeFrom(_, _, _)
DecodeFrom(bytes, i, acc) ==
  IF i > Len(bytes) THEN [ok |-> TRUE, s |-> acc]
  ELSE IF ~WellFormedAt(bytes, i) THEN [ok |-> FALSE, s |-> <<>>]
  ELSE DecodeFrom(bytes, i + Utf8Width(bytes[i]), Append(acc, ScalarAt(bytes, i)))

\* String::from_utf8_lossy in place of from_utf8: a malformed byte becomes
\* U+FFFD and decoding goes on.
RECURSIVE DecodeLossyFrom(_, _, _)
DecodeLossyFrom(bytes, i, acc) ==
  IF i > Len(bytes) THEN [ok |-> TRUE, s |-> acc]
  ELSE IF ~WellFormedAt(bytes, i) THEN DecodeLossyFrom(bytes, i + 1, Append(acc, 65533))
  ELSE DecodeLossyFrom(bytes, i + Utf8Width(bytes[i]), Append(acc, ScalarAt(bytes, i)))

FromUtf8Lossy(bytes) == DecodeLossyFrom(bytes, 1, <<>>)

\* Ok(String) or Err: the bytes are taken as they are or not at all.
FromUtf8(bytes) == DecodeFrom(bytes, 1, <<>>)

\* ------------------------------------------------------ BufRead::lines()
\* read_until(b'\n'): the index of the last byte of the chunk that starts
\* after p consumed bytes: the first LF, or the end of the stream.
ChunkEnd(bytes, p) ==
  IF \E i \in (p + 1)..Len(bytes) : bytes[i] = LF
  THEN CHOOSE i \in (p + 1)..Len(bytes) :
         /\ bytes[i] = LF
         /\ \A j \in (p + 1)..(i - 1) : bytes[j] # LF
  ELSE Len(bytes)

ReadUntil(bytes, p) == SubSeq(bytes, p + 1, ChunkEnd(bytes, p))

\* split('\n') in place of lines(): the "\r" of "\r\n" stays in the line.
StripLfOnly(s) ==
  IF Len(s) > 0 /\ s[Len(s)] = LF THEN SubSeq(s, 1, Len(s) - 1) ELSE s

\* read_line without trimming: the terminator stays in the line.
StripNothing(s) == s

\* Lines::next: a trailing "\n" is popped, and then a trailing "\r".
StripTerminator(s) ==
  IF Len(s) > 0 /\ s[Len(s)] = LF
  THEN LET t == SubSeq(s, 1, Len(s) - 1)
       IN  IF Len(t) > 0 /\ t[Len(t)] = CR THEN SubSeq(t, 1, Len(t) - 1) ELSE t
  ELSE s

\* ------------------------------------------------------------- regex \w+
\* Is c in one of the ranges R[lo..hi]?  R is sorted and its ranges are
\* disjoint.
RECURSIVE InRanges(_, _, _, _)
InRanges(c, R, lo, hi) ==
  IF lo > hi THEN FALSE
  ELSE LET mid == (lo + hi) \div 2
       IN  IF c < R[mid][1] THEN InRanges(c, R, lo, mid - 1)
           ELSE IF c > R[mid][2] THEN InRanges(c, R, mid + 1, hi)
           ELSE TRUE

\* \w of the regex crate (Unicode): Alphabetic, M, Nd, Pc, Join_Control.
\* The scalar values of the class as inclusive ranges <<first, last>>
\* (Unicode 16.0: 144667 scalar values).
WordRanges ==
  <<
  <<48,57>>, <<65,90>>, <<95,95>>, <<97,122>>, <<170,170>>, <<181,181>>, <<186,186>>,
  <<192,214>>, <<216,246>>, <<248,705>>, <<710,721>>, <<736,740>>, <<748,748>>,
  <<750,750>>, <<768,884>>, <<886,887>>, <<890,893>>, <<895,895>>, <<902,902>>,
  <<904,906>>, <<908,908>>, <<910,929>>, <<931,1013>>, <<1015,1153>>, <<1155,1327>>,
  <<1329,1366>>, <<1369,1369>>, <<1376,1416>>, <<1425,1469>>, <<1471,1471>>, <<1473,1474>>,
  <<1476,1477>>, <<1479,1479>>, <<1488,1514>>, <<1519,1522>>, <<1552,1562>>, <<1568,1641>>,
  <<1646,1747>>, <<1749,1756>>, <<1759,1768>>, <<1770,1788>>, <<1791,1791>>, <<1808,1866>>,
  <<1869,1969>>, <<1984,2037>>, <<2042,2042>>, <<2045,2045>>, <<2048,2093>>, <<2112,2139>>,
  <<2144,2154>>, <<2160,2183>>, <<2185,2190>>, <<2199,2273>>, <<2275,2403>>, <<2406,2415>>,
  <<2417,2435>>, <<2437,2444>>, <<2447,2448>>, <<2451,2472>>, <<2474,2480>>, <<2482,2482>>,
  <<2486,2489>>, <<2492,2500>>, <<2503,2504>>, <<2507,2510>>, <<2519,2519>>, <<2524,2525>>,
  <<2527,2531>>, <<2534,2545>>, <<2556,2556>>, <<2558,2558>>, <<2561,2563>>, <<2565,2570>>,
  <<2575,2576>>, <<2579,2600>>, <<2602,2608>>, <<2610,2611>>, <<2613,2614>>, <<2616,2617>>,
  <<2620,2620>>, <<2622,2626>>, <<2631,2632>>, <<2635,2637>>, <<2641,2641>>, <<2649,2652>>,
  <<2654,2654>>, <<2662,2677>>, <<2689,2691>>, <<2693,2701>>, <<2703,2705>>, <<2707,2728>>,
  <<2730,2736>>, <<2738,2739>>, <<2741,2745>>, <<2748,2757>>, <<2759,2761>>, <<2763,2765>>,
  <<2768,2768>>, <<2784,2787>>, <<2790,2799>>, <<2809,2815>>, <<2817,2819>>, <<2821,2828>>,
  <<2831,2832>>, <<2835,2856>>, <<2858,2864>>, <<2866,2867>>, <<2869,2873>>, <<2876,2884>>,
  <<2887,2888>>, <<2891,2893>>, <<2901,2903>>, <<2908,2909>>, <<2911,2915>>, <<2918,2927>>,
  <<2929,2929>>, <<2946,2947>>, <<2949,2954>>, <<2958,2960>>, <<2962,2965>>, <<2969,2970>>,
  <<2972,2972>>, <<2974,2975>>, <<2979,2980>>, <<2984,2986>>, <<2990,3001>>, <<3006,3010>>,
  <<3014,3016>>, <<3018,3021>>, <<3024,3024>>, <<3031,3031>>, <<3046,3055>>, <<3072,3084>>,
  <<3086,3088>>, <<3090,3112>>, <<3114,3129>>, <<3132,3140>>, <<3142,3144>>, <<3146,3149>>,
  <<3157,3158>>, <<3160,3162>>, <<3165,3165>>, <<3168,3171>>, <<3174,3183>>, <<3200,3203>>,
  <<3205,3212>>, <<3214,3216>>, <<3218,3240>>, <<3242,3251>>, <<3253,3257>>, <<3260,3268>>,
  <<3270,3272>>, <<3274,3277>>, <<3285,3286>>, <<3293,3294>>, <<3296,3299>>, <<3302,3311>>,
  <<3313,3315>>, <<3328,3340>>, <<3342,3344>>, <<3346,3396>>, <<3398,3400>>, <<3402,3406>>,
  <<3412,3415>>, <<3423,3427>>, <<3430,3439>>, <<3450,3455>>, <<3457,3459>>, <<3461,3478>>,
  <<3482,3505>>, <<3507,3515>>, <<3517,3517>>, <<3520,3526>>, <<3530,3530>>, <<3535,3540>>,
  <<3542,3542>>, <<3544,3551>>, <<3558,3567>>, <<3570,3571>>, <<3585,3642>>, <<3648,3662>>,
  <<3664,3673>>, <<3713,3714>>, <<3716,3716>>, <<3718,3722>>, <<3724,3747>>, <<3749,3749>>,
  <<3751,3773>>, <<3776,3780>>, <<3782,3782>>, <<3784,3790>>, <<3792,3801>>, <<3804,3807>>,
  <<3840,3840>>, <<3864,3865>>, <<3872,3881>>, <<3893,3893>>, <<3895,3895>>, <<3897,3897>>,
  <<3902,3911>>, <<3913,3948>>, <<3953,3972>>, <<3974,3991>>, <<3993,4028>>, <<4038,4038>>,
  <<4096,4169>>, <<4176,4253>>, <<4256,4293>>, <<4295,4295>>, <<4301,4301>>, <<4304,4346>>,
  <<4348,4680>>, <<4682,4685>>, <<4688,4694>>, <<4696,4696>>, <<4698,4701>>, <<4704,4744>>,
  <<4746,4749>>, <<4752,4784>>, <<4786,4789>>, <<4792,4798>>, <<4800,4800>>, <<4802,4805>>,
  <<4808,4822>>, <<4824,4880>>, <<4882,4885>>, <<4888,4954>>, <<4957,4959>>, <<4992,5007>>,
  <<5024,5109>>, <<5112,5117>>, <<5121,5740>>, <<5743,5759>>, <<5761,5786>>, <<5792,5866>>,
  <<5870,5880>>, <<5888,5909>>, <<5919,5940>>, <<5952,5971>>, <<5984,5996>>, <<5998,6000>>,
  <<6002,6003>>, <<6016,6099>>, <<6103,6103>>, <<6108,6109>>, <<6112,6121>>, <<6155,6157>>,
  <<6159,6169>>, <<6176,6264>>, <<6272,6314>>, <<6320,6389>>, <<6400,6430>>, <<6432,6443>>,
  <<6448,6459>>, <<6470,6509>>, <<6512,6516>>, <<6528,6571>>, <<6576,6601>>, <<6608,6617>>,
  <<6656,6683>>, <<6688,6750>>, <<6752,6780>>, <<6783,6793>>, <<6800,6809>>, <<6823,6823>>,
  <<6832,6862>>, <<6912,6988>>, <<6992,7001>>, <<7019,7027>>, <<7040,7155>>, <<7168,7223>>,
  <<7232,7241>>, <<7245,7293>>, <<7296,7306>>, <<7312,7354>>, <<7357,7359>>, <<7376,7378>>,
  <<7380,7418>>, <<7424,7957>>, <<7960,7965>>, <<7968,8005>>, <<8008,8013>>, <<8016,8023>>,
  <<8025,8025>>, <<8027,8027>>, <<8029,8029>>, <<8031,8061>>, <<8064,8116>>, <<8118,8124>>,
  <<8126,8126>>, <<8130,8132>>, <<8134,8140>>, <<8144,8147>>, <<8150,8155>>, <<8160,8172>>,
  <<8178,8180>>, <<8182,8188>>, <<8204,8205>>, <<8255,8256>>, <<8276,8276>>, <<8305,8305>>,
  <<8319,8319>>, <<8336,8348>>, <<8400,8432>>, <<8450,8450>>, <<8455,8455>>, <<8458,8467>>,
  <<8469,8469>>, <<8473,8477>>, <<8484,8484>>, <<8486,8486>>, <<8488,8488>>, <<8490,8493>>,
  <<8495,8505>>, <<8508,8511>>, <<8517,8521>>, <<8526,8526>>, <<8544,8584>>, <<9398,9449>>,
  <<11264,11492>>, <<11499,11507>>, <<11520,11557>>, <<11559,11559>>, <<11565,11565>>,
  <<11568,11623>>, <<11631,11631>>, <<11647,11670>>, <<11680,11686>>, <<11688,11694>>,
  <<11696,11702>>, <<11704,11710>>, <<11712,11718>>, <<11720,11726>>, <<11728,11734>>,
  <<11736,11742>>, <<11744,11775>>, <<11823,11823>>, <<12293,12295>>, <<12321,12335>>,
  <<12337,12341>>, <<12344,12348>>, <<12353,12438>>, <<12441,12442>>, <<12445,12447>>,
  <<12449,12538>>, <<12540,12543>>, <<12549,12591>>, <<12593,12686>>, <<12704,12735>>,
  <<12784,12799>>, <<13312,19903>>, <<19968,42124>>, <<42192,42237>>, <<42240,42508>>,
  <<42512,42539>>, <<42560,42610>>, <<42612,42621>>, <<42623,42737>>, <<42775,42783>>,
  <<42786,42888>>, <<42891,42957>>, <<42960,42961>>, <<42963,42963>>, <<42965,42972>>,
  <<42994,43047>>, <<43052,43052>>, <<43072,43123>>, <<43136,43205>>, <<43216,43225>>,
  <<43232,43255>>, <<43259,43259>>, <<43261,43309>>, <<43312,43347>>, <<43360,43388>>,
  <<43392,43456>>, <<43471,43481>>, <<43488,43518>>, <<43520,43574>>, <<43584,43597>>,
  <<43600,43609>>, <<43616,43638>>, <<43642,43714>>, <<43739,43741>>, <<43744,43759>>,
  <<43762,43766>>, <<43777,43782>>, <<43785,43790>>, <<43793,43798>>, <<43808,43814>>,
  <<43816,43822>>, <<43824,43866>>, <<43868,43881>>, <<43888,44010>>, <<44012,44013>>,
  <<44016,44025>>, <<44032,55203>>, <<55216,55238>>, <<55243,55291>>, <<63744,64109>>,
  <<64112,64217>>, <<64256,64262>>, <<64275,64279>>, <<64285,64296>>, <<64298,64310>>,
  <<64312,64316>>, <<64318,64318>>, <<64320,64321>>, <<64323,64324>>, <<64326,64433>>,
  <<64467,64829>>, <<64848,64911>>, <<64914,64967>>, <<65008,65019>>, <<65024,65039>>,
  <<65056,65071>>, <<65075,65076>>, <<65101,65103>>, <<65136,65140>>, <<65142,65276>>,
  <<65296,65305>>, <<65313,65338>>, <<65343,65343>>, <<65345,65370>>, <<65382,65470>>,
  <<65474,65479>>, <<65482,65487>>, <<65490,65495>>, <<65498,65500>>, <<65536,65547>>,
  <<65549,65574>>, <<65576,65594>>, <<65596,65597>>, <<65599,65613>>, <<65616,65629>>,
  <<65664,65786>>, <<65856,65908>>, <<66045,66045>>, <<66176,66204>>, <<66208,66256>>,
  <<66272,66272>>, <<66304,66335>>, <<66349,66378>>, <<66384,66426>>, <<66432,66461>>,
  <<66464,66499>>, <<66504,66511>>, <<66513,66517>>, <<66560,66717>>, <<66720,66729>>,
  <<66736,66771>>, <<66776,66811>>, <<66816,66855>>, <<66864,66915>>, <<66928,66938>>,
  <<66940,66954>>, <<66956,66962>>, <<66964,66965>>, <<66967,66977>>, <<66979,66993>>,
  <<66995,67001>>, <<67003,67004>>, <<67008,67059>>, <<67072,67382>>, <<67392,67413>>,
  <<67424,67431>>, <<67456,67461>>, <<67463,67504>>, <<67506,67514>>, <<67584,67589>>,
  <<67592,67592>>, <<67594,67637>>, <<67639,67640>>, <<67644,67644>>, <<67647,67669>>,
  <<67680,67702>>, <<67712,67742>>, <<67808,67826>>, <<67828,67829>>, <<67840,67861>>,
  <<67872,67897>>, <<67968,68023>>, <<68030,68031>>, <<68096,68099>>, <<68101,68102>>,
  <<68108,68115>>, <<68117,68119>>, <<68121,68149>>, <<68152,68154>>, <<68159,68159>>,
  <<68192,68220>>, <<68224,68252>>, <<68288,68295>>, <<68297,68326>>, <<68352,68405>>,
  <<68416,68437>>, <<68448,68466>>, <<68480,68497>>, <<68608,68680>>, <<68736,68786>>,
  <<68800,68850>>, <<68864,68903>>, <<68912,68921>>, <<68928,68965>>, <<68969,68973>>,
  <<68975,68997>>, <<69248,69289>>, <<69291,69292>>, <<69296,69297>>, <<69314,69316>>,
  <<69372,69404>>, <<69415,69415>>, <<69424,69456>>, <<69488,69509>>, <<69552,69572>>,
  <<69600,69622>>, <<69632,69702>>, <<69734,69749>>, <<69759,69818>>, <<69826,69826>>,
  <<69840,69864>>, <<69872,69881>>, <<69888,69940>>, <<69942,69951>>, <<69956,69959>>,
  <<69968,70003>>, <<70006,70006>>, <<70016,70084>>, <<70089,70092>>, <<70094,70106>>,
  <<70108,70108>>, <<70144,70161>>, <<70163,70199>>, <<70206,70209>>, <<70272,70278>>,
  <<70280,70280>>, <<70282,70285>>, <<70287,70301>>, <<70303,70312>>, <<70320,70378>>,
  <<70384,70393>>, <<70400,70403>>, <<70405,70412>>, <<70415,70416>>, <<70419,70440>>,
  <<70442,70448>>, <<70450,70451>>, <<70453,70457>>, <<70459,70468>>, <<70471,70472>>,
  <<70475,70477>>, <<70480,70480>>, <<70487,70487>>, <<70493,70499>>, <<70502,70508>>,
  <<70512,70516>>, <<70528,70537>>, <<70539,70539>>, <<70542,70542>>, <<70544,70581>>,
  <<70583,70592>>, <<70594,70594>>, <<70597,70597>>, <<70599,70602>>, <<70604,70611>>,
  <<70625,70626>>, <<70656,70730>>, <<70736,70745>>, <<70750,70753>>, <<70784,70853>>,
  <<70855,70855>>, <<70864,70873>>, <<71040,71093>>, <<71096,71104>>, <<71128,71133>>,
  <<71168,71232>>, <<71236,71236>>, <<71248,71257>>, <<71296,71352>>, <<71360,71369>>,
  <<71376,71395>>, <<71424,71450>>, <<71453,71467>>, <<71472,71481>>, <<71488,71494>>,
  <<71680,71738>>, <<71840,71913>>, <<71935,71942>>, <<71945,71945>>, <<71948,71955>>,
  <<71957,71958>>, <<71960,71989>>, <<71991,71992>>, <<71995,72003>>, <<72016,72025>>,
  <<72096,72103>>, <<72106,72151>>, <<72154,72161>>, <<72163,72164>>, <<72192,72254>>,
  <<72263,72263>>, <<72272,72345>>, <<72349,72349>>, <<72368,72440>>, <<72640,72672>>,
  <<72688,72697>>, <<72704,72712>>, <<72714,72758>>, <<72760,72768>>, <<72784,72793>>,
  <<72818,72847>>, <<72850,72871>>, <<72873,72886>>, <<72960,72966>>, <<72968,72969>>,
  <<72971,73014>>, <<73018,73018>>, <<73020,73021>>, <<73023,73031>>, <<73040,73049>>,
  <<73056,73061>>, <<73063,73064>>, <<73066,73102>>, <<73104,73105>>, <<73107,73112>>,
  <<73120,73129>>, <<73440,73462>>, <<73472,73488>>, <<73490,73530>>, <<73534,73538>>,
  <<73552,73562>>, <<73648,73648>>, <<73728,74649>>, <<74752,74862>>, <<74880,75075>>,
  <<77712,77808>>, <<77824,78895>>, <<78912,78933>>, <<78944,82938>>, <<82944,83526>>,
  <<90368,90425>>, <<92160,92728>>, <<92736,92766>>, <<92768,92777>>, <<92784,92862>>,
  <<92864,92873>>, <<92880,92909>>, <<92912,92916>>, <<92928,92982>>, <<92992,92995>>,
  <<93008,93017>>, <<93027,93047>>, <<93053,93071>>, <<93504,93548>>, <<93552,93561>>,
  <<93760,93823>>, <<93952,94026>>, <<94031,94087>>, <<94095,94111>>, <<94176,94177>>,
  <<94179,94180>>, <<94192,94193>>, <<94208,100343>>, <<100352,101589>>, <<101631,101640>>,
  <<110576,110579>>, <<110581,110587>>, <<110589,110590>>, <<110592,110882>>,
  <<110898,110898>>, <<110928,110930>>, <<110933,110933>>, <<110948,110951>>,
  <<110960,111355>>, <<113664,113770>>, <<113776,113788>>, <<113792,113800>>,
  <<113808,113817>>, <<113821,113822>>, <<118000,118009>>, <<118528,118573>>,
  <<118576,118598>>, <<119141,119145>>, <<119149,119154>>, <<119163,119170>>,
  <<119173,119179>>, <<119210,119213>>, <<119362,119364>>, <<119808,119892>>,
  <<119894,119964>>, <<119966,119967>>, <<119970,119970>>, <<119973,119974>>,
  <<119977,119980>>, <<119982,119993>>, <<119995,119995>>, <<119997,120003>>,
  <<120005,120069>>, <<120071,120074>>, <<120077,120084>>, <<120086,120092>>,
  <<120094,120121>>, <<120123,120126>>, <<120128,120132>>, <<120134,120134>>,
  <<120138,120144>>, <<120146,120485>>, <<120488,120512>>, <<120514,120538>>,
  <<120540,120570>>, <<120572,120596>>, <<120598,120628>>, <<120630,120654>>,
  <<120656,120686>>, <<120688,120712>>, <<120714,120744>>, <<120746,120770>>,
  <<120772,120779>>, <<120782,120831>>, <<121344,121398>>, <<121403,121452>>,
  <<121461,121461>>, <<121476,121476>>, <<121499,121503>>, <<121505,121519>>,
  <<122624,122654>>, <<122661,122666>>, <<122880,122886>>, <<122888,122904>>,
  <<122907,122913>>, <<122915,122916>>, <<122918,122922>>, <<122928,122989>>,
  <<123023,123023>>, <<123136,123180>>, <<123184,123197>>, <<123200,123209>>,
  <<123214,123214>>, <<123536,123566>>, <<123584,123641>>, <<124112,124153>>,
  <<124368,124410>>, <<124896,124902>>, <<124904,124907>>, <<124909,124910>>,
  <<124912,124926>>, <<124928,125124>>, <<125136,125142>>, <<125184,125259>>,
  <<125264,125273>>, <<126464,126467>>, <<126469,126495>>, <<126497,126498>>,
  <<126500,126500>>, <<126503,126503>>, <<126505,126514>>, <<126516,126519>>,
  <<126521,126521>>, <<126523,126523>>, <<126530,126530>>, <<126535,126535>>,
  <<126537,126537>>, <<126539,126539>>, <<126541,126543>>, <<126545,126546>>,
  <<126548,126548>>, <<126551,126551>>, <<126553,126553>>, <<126555,126555>>,
  <<126557,126557>>, <<126559,126559>>, <<126561,126562>>, <<126564,126564>>,
  <<126567,126570>>, <<126572,126578>>, <<126580,126583>>, <<126585,126588>>,
  <<126590,126590>>, <<126592,126601>>, <<126603,126619>>, <<126625,126627>>,
  <<126629,126633>>, <<126635,126651>>, <<127280,127305>>, <<127312,127337>>,
  <<127344,127369>>, <<130032,130041>>, <<131072,173791>>, <<173824,177977>>,
  <<177984,178205>>, <<178208,183969>>, <<183984,191456>>, <<191472,192093>>,
  <<194560,195101>>, <<196608,201546>>, <<201552,205743>>, <<917760,917999>>
  >>

IsWordChar(c) == InRanges(c, WordRanges, 1, Len(WordRanges))

\* The pattern \w in place of \w+: every match is one character long.
MatchEndOne(line, i) == i

\* End of the greedy match that starts at i.
RECURSIVE MatchEnd(_, _)
MatchEnd(line, i) ==
  IF i < Len(line) /\ IsWordChar(line[i + 1]) THEN MatchEnd(line, i + 1) ELSE i

\* find_iter: the matches from position i on, leftmost first, each as long
\* as possible, the search resuming right after the previous match.
RECURSIVE FindIter(_, _)
FindIter(line, i) ==
  IF i > Len(line) THEN <<>>
  ELSE IF ~IsWordChar(line[i]) THEN FindIter(line, i + 1)
  ELSE LET e == MatchEnd(line, i)
       IN  <<SubSeq(line, i, e)>> \o FindIter(line, e + 1)

\* ---------------------------------------------------------------- HashMap
EmptyMap == [k \in {} |-> 0]

\* *freqs.entry(k).or_insert(1) += 1: a new key starts at 2.
IncrFromOne(f, k) ==
  LET g == IF k \in DOMAIN f THEN f ELSE [x \in DOMAIN f \cup {k} |-> IF x = k THEN 1 ELSE f[x]]
  IN  [g EXCEPT ![k] = @ + 1]

\* freqs.insert(k, 1): the count is overwritten, not incremented.
IncrOverwrite(f, k) == [x \in DOMAIN f \cup {k} |-> IF x = k THEN 1 ELSE f[x]]

\* *freqs.entry(k).or_insert(0) += 1
Incr(f, k) ==
  LET g == IF k \in DOMAIN f THEN f ELSE [x \in DOMAIN f \cup {k} |-> IF x = k THEN 0 ELSE f[x]]
  IN  [g EXCEPT ![k] = @ + 1]

\* re.find in place of re.find_iter: only the first unit of a line counts.
IncrFirstOnly(f, keys) ==
  IF keys = <<>> THEN f ELSE Incr(f, Head(keys))

RECURSIVE IncrAll(_, _)
IncrAll(f, keys) ==
  IF keys = <<>> THEN f ELSE IncrAll(Incr(f, Head(keys)), Tail(keys))

\* The UTF-8 bytes of one scalar value.
EncodeScalar(c) ==
  IF c < 128 THEN <<c>>
  ELSE IF c < 2048 THEN <<192 + (c \div 64), 128 + (c % 64)>>
  ELSE IF c < 65536 THEN <<224 + (c \div 4096), 128 + ((c \div 64) % 64), 128 + (c % 64)>>
  ELSE <<240 + (c \div 262144), 128 + ((c \div 4096) % 64),
         128 + ((c \div 64) % 64), 128 + (c % 64)>>

RECURSIVE EncodeAll(_)
EncodeAll(line) ==
  IF line = <<>> THEN <<>> ELSE EncodeScalar(Head(line)) \o EncodeAll(Tail(line))

\* line.bytes() in place of line.chars(): one key per byte (b as char).
CharsAsBytes(line) ==
  LET b == EncodeAll(line) IN [i \in 1..Len(b) |-> <<b[i]>>]

\* line.chars() with c.to_string() for each.
Chars(line) == [i \in 1..Len(line) |-> <<line[i]>>]

\* The Line arm guarded by !line.is_empty(): blank lines are skipped.
UnitsSkipBlank(line, opt) ==
  IF opt = "Char" THEN Chars(line)
  ELSE IF opt = "Word" THEN FindIter(line, 1)
  ELSE IF line = <<>> THEN <<>> ELSE <<line>>

\* The keys one line contributes, in order: the arms of the match.
Units(line, opt) ==
  IF opt = "Char" THEN Chars(line)
  ELSE IF opt = "Word" THEN FindIter(line, 1)
  ELSE <<line>>

\* count run to completion on the bytes from p on, as a function: the set
\* holding the returned table, or no table when a line fails to decode.
RECURSIVE CountFrom(_, _, _, _)
CountFrom(bytes, p, f, opt) ==
  IF p >= Len(bytes) THEN {f}
  ELSE LET r == FromUtf8(ReadUntil(bytes, p))
       IN  IF ~r.ok THEN {}
           ELSE CountFrom(bytes, ChunkEnd(bytes, p),
                          IncrAll(f, Units(StripTerminator(r.s), opt)), opt)

CountFn(bytes, opt) == CountFrom(bytes, 0, EmptyMap, opt)

\* ------------------------------------------------------------------ state
VARIABLES input,       \* the bytes of the stream
          option,      \* the CountOption passed to count
          viaDefault,  \* the caller passed CountOption::default()
          pos,         \* bytes consumed from the stream
          freqs,       \* the local table
          pc,          \* "loop", "returned", "panicked"
          result       \* {} until count returns, then {the table}

vars == <<input, option, viaDefault, pos, freqs, pc, result>>

Init ==
  /\ input \in Inputs
  /\ viaDefault \in BOOLEAN
  /\ option \in IF viaDefault THEN {CountOptionDefault} ELSE CountOption
  /\ pos = 0
  /\ freqs = EmptyMap
  /\ pc = "loop"
  /\ result = {}

\* Lines::next on the stream after pos consumed bytes: Ok(String) or Err.
NextLine ==
  LET r == FromUtf8(ReadUntil(input, pos))
  IN  [ok |-> r.ok, s |-> StripTerminator(r.s)]

\* One iteration of the for loop, Char arm.
CountChar ==
  /\ pc = "loop"
  /\ pos < Len(input)
  /\ option = "Char"
  /\ NextLine.ok
  /\ freqs' = IncrAll(freqs, Units(NextLine.s, "Char"))
  /\ pos' = ChunkEnd(input, pos)
  /\ UNCHANGED <<input, option, viaDefault, pc, result>>

\* One iteration of the for loop, Word arm.
CountWord ==
  /\ pc = "loop"
  /\ pos < Len(input)
  /\ option = "Word"
  /\ NextLine.ok
  /\ freqs' = IncrAll(freqs, Units(NextLine.s, "Word"))
  /\ pos' = ChunkEnd(input, pos)
  /\ UNCHANGED <<input, option, viaDefault, pc, result>>

\* One iteration of the for loop, Line arm.
CountLine ==
  /\ pc = "loop"
  /\ pos < Len(input)
  /\ option = "Line"
  /\ NextLine.ok
  /\ freqs' = IncrAll(freqs, Units(NextLine.s, "Line"))
  /\ pos' = ChunkEnd(input, pos)
  /\ UNCHANGED <<input, option, viaDefault, pc, result>>

\* line.unwrap() on Err: the call unwinds, nothing is returned.
Panic ==
  /\ pc = "loop"
  /\ pos < Len(input)
  /\ ~NextLine.ok
  /\ pc' = "panicked"
  /\ pos' = ChunkEnd(input, pos)
  /\ UNCHANGED <<input, option, viaDefault, freqs, result>>

\* The iterator is exhausted (read_line returned Ok(0)): freqs is returned.
Return ==
  /\ pc = "loop"
  /\ pos = Len(input)
  /\ pc' = "returned"
  /\ result' = {freqs}
  /\ UNCHANGED <<input, option, viaDefault, pos, freqs>>

Next == CountChar \/ CountWord \/ CountLine \/ Panic \/ Return

Spec == Init /\ [][Next]_vars

\* ============================================================ reference
\* What the input holds, told from the whole text rather than line by line.
\* T is a sequence of scalar values.

\* Positions of T taken by a line terminator: "\n", or the "\r" of "\r\n".
TermPos(T) ==
  { i \in 1..Len(T) : \/ T[i] = LF
                      \/ T[i] = CR /\ i < Len(T) /\ T[i + 1] = LF }

\* Occurrences are pairs <<where it starts, its text>>.
CharOccs(T) == { <<i, <<T[i]>>>> : i \in (1..Len(T)) \ TermPos(T) }

\* Maximal runs of the characters of class W.
RunsOf(T, W(_)) ==
  { ij \in (1..Len(T)) \X (1..Len(T)) :
      /\ ij[1] <= ij[2]
      /\ \A k \in ij[1]..ij[2] : W(T[k])
      /\ ij[1] = 1 \/ ~W(T[ij[1] - 1])
      /\ ij[2] = Len(T) \/ ~W(T[ij[2] + 1]) }

WordOccsOf(T, W(_)) == { <<ij[1], SubSeq(T, ij[1], ij[2])>> : ij \in RunsOf(T, W) }

\* A line starts at the first scalar and after every "\n".
LineStarts(T) == { s \in 1..Len(T) : s = 1 \/ T[s - 1] = LF }

\* Where the line that starts at s stops: its "\n", or one past the end.
LineStop(T, s) ==
  IF \E e \in s..Len(T) : T[e] = LF
  THEN CHOOSE e \in s..Len(T) : T[e] = LF /\ \A j \in s..(e - 1) : T[j] # LF
  ELSE Len(T) + 1

LineText(T, s) ==
  LET e == LineStop(T, s)
  IN  IF e <= Len(T) /\ e > s /\ T[e - 1] = CR
      THEN SubSeq(T, s, e - 2)
      ELSE SubSeq(T, s, e - 1)

LineOccs(T) == { <<s, LineText(T, s)>> : s \in LineStarts(T) }

UnitOccs(T, opt) ==
  IF opt = "Char" THEN CharOccs(T)
  ELSE IF opt = "Word" THEN WordOccsOf(T, IsWordChar)
  ELSE LineOccs(T)

\* How often the unit k occurs among the occurrences.
TimesIn(occs, k) == Cardinality({ o \in occs : o[2] = k })

TableOf(occs) == [k \in { o[2] : o \in occs } |-> TimesIn(occs, k)]

RECURSIVE SumOver(_, _)
SumOver(f, S) ==
  IF S = {} THEN 0
  ELSE LET k == CHOOSE x \in S : TRUE IN f[k] + SumOver(f, S \ {k})

SumOfCounts(f) == SumOver(f, DOMAIN f)

\* Well-formedness of a byte sequence, from position i on.
RECURSIVE WellFormedFrom(_, _)
WellFormedFrom(bytes, i) ==
  \/ i > Len(bytes)
  \/ /\ WellFormedAt(bytes, i)
     /\ WellFormedFrom(bytes, i + Utf8Width(bytes[i]))

Malformed(bytes) == ~WellFormedFrom(bytes, 1)

\* The scalar values of a well-formed byte sequence, read without FromUtf8:
\* the scalars at the positions where a sequence starts.
LeadPos(bytes) == { i \in 1..Len(bytes) : ~IsCont(bytes[i]) }

RECURSIVE ScalarsAt(_, _, _)
ScalarsAt(bytes, P, i) ==
  IF i > Len(bytes) THEN <<>>
  ELSE IF i \in P THEN <<ScalarAt(bytes, i)>> \o ScalarsAt(bytes, P, i + 1)
  ELSE ScalarsAt(bytes, P, i + 1)

TextOf(bytes) == ScalarsAt(bytes, LeadPos(bytes), 1)

\* The text of the input.
InputText == TextOf(input)

Returned == pc = "returned"

Valid == ~Malformed(input)

\* ================================================================== claims
\* C1: for a valid UTF-8 input and every mode, the returned table has exactly
\* the units that occur in the input as keys, each mapped to the number of
\* its occurrences.
C1_CountsAreOccurrences ==
  (Returned /\ Valid) => result = { TableOf(UnitOccs(InputText, option)) }

\* Returned a table with several keys, one of them counted more than once.
C1_Witness ==
  /\ Returned
  /\ Valid
  /\ \E f \in result : /\ Cardinality(DOMAIN f) >= 2
                       /\ \E k \in DOMAIN f : f[k] >= 2

\* C2: the counts of the returned table add up to the number of units the
\* input holds (characters, word matches, lines).
C2_SumIsUnitTotal ==
  (Returned /\ Valid) =>
     \A f \in result : SumOfCounts(f) = Cardinality(UnitOccs(InputText, option))

\* Returned a table whose counts add up to 3 or more over repeated units.
C2_Witness ==
  /\ Returned
  /\ Valid
  /\ \E f \in result : /\ SumOfCounts(f) >= 3
                       /\ SumOfCounts(f) > Cardinality(DOMAIN f)
                       /\ Cardinality(DOMAIN f) >= 2

\* Where the chunk that ends at pos starts.
ChunkStart ==
  IF \E j \in 1..(pos - 1) : input[j] = LF
  THEN 1 + CHOOSE j \in 1..(pos - 1) :
             input[j] = LF /\ \A m \in (j + 1)..(pos - 1) : input[m] # LF
  ELSE 1

\* C3: a malformed line makes the call panic when that line is read: nothing
\* is returned in any mode, the lines before it were counted but their
\* table is not handed out, and no malformed input ever reaches a return.
C3_MalformedPanics ==
  /\ Malformed(input) => (~Returned /\ result = {})
  /\ pc = "panicked" =>
       /\ result = {}
       /\ Malformed(SubSeq(input, ChunkStart, pos))
       /\ ~Malformed(SubSeq(input, 1, ChunkStart - 1))
       /\ freqs = TableOf(UnitOccs(TextOf(SubSeq(input, 1, ChunkStart - 1)), option))

\* Panicked on a later line, with counts of the earlier lines in the table.
C3_Witness ==
  /\ pc = "panicked"
  /\ result = {}
  /\ freqs # EmptyMap
  /\ ChunkStart > 1

\* The \w characters that are no letter (general category L), no decimal
\* digit (Nd) and not the underscore: marks, letter numbers, the other
\* connector punctuation, other alphabetic symbols, the join controls.
NonLetterWordRanges ==
  <<
  <<768,879>>, <<1155,1161>>, <<1425,1469>>, <<1471,1471>>, <<1473,1474>>, <<1476,1477>>,
  <<1479,1479>>, <<1552,1562>>, <<1611,1631>>, <<1648,1648>>, <<1750,1756>>, <<1759,1764>>,
  <<1767,1768>>, <<1770,1773>>, <<1809,1809>>, <<1840,1866>>, <<1958,1968>>, <<2027,2035>>,
  <<2045,2045>>, <<2070,2073>>, <<2075,2083>>, <<2085,2087>>, <<2089,2093>>, <<2137,2139>>,
  <<2199,2207>>, <<2250,2273>>, <<2275,2307>>, <<2362,2364>>, <<2366,2383>>, <<2385,2391>>,
  <<2402,2403>>, <<2433,2435>>, <<2492,2492>>, <<2494,2500>>, <<2503,2504>>, <<2507,2509>>,
  <<2519,2519>>, <<2530,2531>>, <<2558,2558>>, <<2561,2563>>, <<2620,2620>>, <<2622,2626>>,
  <<2631,2632>>, <<2635,2637>>, <<2641,2641>>, <<2672,2673>>, <<2677,2677>>, <<2689,2691>>,
  <<2748,2748>>, <<2750,2757>>, <<2759,2761>>, <<2763,2765>>, <<2786,2787>>, <<2810,2815>>,
  <<2817,2819>>, <<2876,2876>>, <<2878,2884>>, <<2887,2888>>, <<2891,2893>>, <<2901,2903>>,
  <<2914,2915>>, <<2946,2946>>, <<3006,3010>>, <<3014,3016>>, <<3018,3021>>, <<3031,3031>>,
  <<3072,3076>>, <<3132,3132>>, <<3134,3140>>, <<3142,3144>>, <<3146,3149>>, <<3157,3158>>,
  <<3170,3171>>, <<3201,3203>>, <<3260,3260>>, <<3262,3268>>, <<3270,3272>>, <<3274,3277>>,
  <<3285,3286>>, <<3298,3299>>, <<3315,3315>>, <<3328,3331>>, <<3387,3388>>, <<3390,3396>>,
  <<3398,3400>>, <<3402,3405>>, <<3415,3415>>, <<3426,3427>>, <<3457,3459>>, <<3530,3530>>,
  <<3535,3540>>, <<3542,3542>>, <<3544,3551>>, <<3570,3571>>, <<3633,3633>>, <<3636,3642>>,
  <<3655,3662>>, <<3761,3761>>, <<3764,3772>>, <<3784,3790>>, <<3864,3865>>, <<3893,3893>>,
  <<3895,3895>>, <<3897,3897>>, <<3902,3903>>, <<3953,3972>>, <<3974,3975>>, <<3981,3991>>,
  <<3993,4028>>, <<4038,4038>>, <<4139,4158>>, <<4182,4185>>, <<4190,4192>>, <<4194,4196>>,
  <<4199,4205>>, <<4209,4212>>, <<4226,4237>>, <<4239,4239>>, <<4250,4253>>, <<4957,4959>>,
  <<5870,5872>>, <<5906,5909>>, <<5938,5940>>, <<5970,5971>>, <<6002,6003>>, <<6068,6099>>,
  <<6109,6109>>, <<6155,6157>>, <<6159,6159>>, <<6277,6278>>, <<6313,6313>>, <<6432,6443>>,
  <<6448,6459>>, <<6679,6683>>, <<6741,6750>>, <<6752,6780>>, <<6783,6783>>, <<6832,6862>>,
  <<6912,6916>>, <<6964,6980>>, <<7019,7027>>, <<7040,7042>>, <<7073,7085>>, <<7142,7155>>,
  <<7204,7223>>, <<7376,7378>>, <<7380,7400>>, <<7405,7405>>, <<7412,7412>>, <<7415,7417>>,
  <<7616,7679>>, <<8204,8205>>, <<8255,8256>>, <<8276,8276>>, <<8400,8432>>, <<8544,8578>>,
  <<8581,8584>>, <<9398,9449>>, <<11503,11505>>, <<11647,11647>>, <<11744,11775>>,
  <<12295,12295>>, <<12321,12335>>, <<12344,12346>>, <<12441,12442>>, <<42607,42610>>,
  <<42612,42621>>, <<42654,42655>>, <<42726,42737>>, <<43010,43010>>, <<43014,43014>>,
  <<43019,43019>>, <<43043,43047>>, <<43052,43052>>, <<43136,43137>>, <<43188,43205>>,
  <<43232,43249>>, <<43263,43263>>, <<43302,43309>>, <<43335,43347>>, <<43392,43395>>,
  <<43443,43456>>, <<43493,43493>>, <<43561,43574>>, <<43587,43587>>, <<43596,43597>>,
  <<43643,43645>>, <<43696,43696>>, <<43698,43700>>, <<43703,43704>>, <<43710,43711>>,
  <<43713,43713>>, <<43755,43759>>, <<43765,43766>>, <<44003,44010>>, <<44012,44013>>,
  <<64286,64286>>, <<65024,65039>>, <<65056,65071>>, <<65075,65076>>, <<65101,65103>>,
  <<65343,65343>>, <<65856,65908>>, <<66045,66045>>, <<66272,66272>>, <<66369,66369>>,
  <<66378,66378>>, <<66422,66426>>, <<66513,66517>>, <<68097,68099>>, <<68101,68102>>,
  <<68108,68111>>, <<68152,68154>>, <<68159,68159>>, <<68325,68326>>, <<68900,68903>>,
  <<68969,68973>>, <<69291,69292>>, <<69372,69375>>, <<69446,69456>>, <<69506,69509>>,
  <<69632,69634>>, <<69688,69702>>, <<69744,69744>>, <<69747,69748>>, <<69759,69762>>,
  <<69808,69818>>, <<69826,69826>>, <<69888,69890>>, <<69927,69940>>, <<69957,69958>>,
  <<70003,70003>>, <<70016,70018>>, <<70067,70080>>, <<70089,70092>>, <<70094,70095>>,
  <<70188,70199>>, <<70206,70206>>, <<70209,70209>>, <<70367,70378>>, <<70400,70403>>,
  <<70459,70460>>, <<70462,70468>>, <<70471,70472>>, <<70475,70477>>, <<70487,70487>>,
  <<70498,70499>>, <<70502,70508>>, <<70512,70516>>, <<70584,70592>>, <<70594,70594>>,
  <<70597,70597>>, <<70599,70602>>, <<70604,70608>>, <<70610,70610>>, <<70625,70626>>,
  <<70709,70726>>, <<70750,70750>>, <<70832,70851>>, <<71087,71093>>, <<71096,71104>>,
  <<71132,71133>>, <<71216,71232>>, <<71339,71351>>, <<71453,71467>>, <<71724,71738>>,
  <<71984,71989>>, <<71991,71992>>, <<71995,71998>>, <<72000,72000>>, <<72002,72003>>,
  <<72145,72151>>, <<72154,72160>>, <<72164,72164>>, <<72193,72202>>, <<72243,72249>>,
  <<72251,72254>>, <<72263,72263>>, <<72273,72283>>, <<72330,72345>>, <<72751,72758>>,
  <<72760,72767>>, <<72850,72871>>, <<72873,72886>>, <<73009,73014>>, <<73018,73018>>,
  <<73020,73021>>, <<73023,73029>>, <<73031,73031>>, <<73098,73102>>, <<73104,73105>>,
  <<73107,73111>>, <<73459,73462>>, <<73472,73473>>, <<73475,73475>>, <<73524,73530>>,
  <<73534,73538>>, <<73562,73562>>, <<74752,74862>>, <<78912,78912>>, <<78919,78933>>,
  <<90398,90415>>, <<92912,92916>>, <<92976,92982>>, <<94031,94031>>, <<94033,94087>>,
  <<94095,94098>>, <<94180,94180>>, <<94192,94193>>, <<113821,113822>>, <<118528,118573>>,
  <<118576,118598>>, <<119141,119145>>, <<119149,119154>>, <<119163,119170>>,
  <<119173,119179>>, <<119210,119213>>, <<119362,119364>>, <<121344,121398>>,
  <<121403,121452>>, <<121461,121461>>, <<121476,121476>>, <<121499,121503>>,
  <<121505,121519>>, <<122880,122886>>, <<122888,122904>>, <<122907,122913>>,
  <<122915,122916>>, <<122918,122922>>, <<123023,123023>>, <<123184,123190>>,
  <<123566,123566>>, <<123628,123631>>, <<124140,124143>>, <<124398,124399>>,
  <<125136,125142>>, <<125252,125258>>, <<127280,127305>>, <<127312,127337>>,
  <<127344,127369>>, <<917760,917999>>
  >>

\* The class the words "letters, digits, underscore" name.
IsLetterDigitUnderscore(c) ==
  /\ IsWordChar(c)
  /\ ~InRanges(c, NonLetterWordRanges, 1, Len(NonLetterWordRanges))

WordTask == Returned /\ Valid /\ option = "Word"

\* The table of the maximal runs of class W in the input.
RunTable(W(_)) == TableOf(WordOccsOf(InputText, W))

\* C4 as stated: the words are the maximal runs of letters, digits and
\* underscores, and no other character appears in a key.
C4_Original ==
  WordTask => result = { RunTable(IsLetterDigitUnderscore) }

\* C4 amended: in Word mode the keys are the maximal runs of \w characters
\* (alphabetic, combining mark, decimal digit, connector punctuation, join
\* control), verbatim and case-sensitive, each counted once per run; other
\* characters only separate runs; "aa bb cc bb" gives {aa:1, bb:2, cc:1} and
\* "aa cc dd" gives {aa:1, cc:1, dd:1}.
C4_WordRuns ==
  /\ WordTask =>
       \A f \in result :
         /\ \A k \in DOMAIN f : /\ k # <<>>
                                /\ \A i \in 1..Len(k) : IsWordChar(k[i])
                                /\ f[k] = Cardinality({ r \in RunsOf(InputText, IsWordChar) :
                                                          SubSeq(InputText, r[1], r[2]) = k })
         /\ \A r \in RunsOf(InputText, IsWordChar) :
              SubSeq(InputText, r[1], r[2]) \in DOMAIN f
  /\ (Returned /\ option = "Word" /\ input = <<97,97,32,98,98,32,99,99,32,98,98>>) =>
       result = { (<<97,97>> :> 1) @@ (<<98,98>> :> 2) @@ (<<99,99>> :> 1) }
  /\ (Returned /\ option = "Word" /\ input = <<97,97,32,99,99,32,100,100>>) =>
       result = { (<<97,97>> :> 1) @@ (<<99,99>> :> 1) @@ (<<100,100>> :> 1) }

\* Returned in Word mode with a key of two or more characters that holds a
\* combining mark, next to another key.
C4_Witness ==
  /\ WordTask
  /\ \E f \in result :
       /\ Cardinality(DOMAIN f) >= 2
       /\ \E k \in DOMAIN f : Len(k) >= 2 /\ \E i \in 1..Len(k) : k[i] = 769

\* f with the count of k raised by n (an absent key counts as 0).
Raised(f, k, n) ==
  [x \in DOMAIN f \cup {k} |->
     IF x = k THEN (IF k \in DOMAIN f THEN f[k] ELSE 0) + n ELSE f[x]]

\* A step of the loop that consumed a line without panicking.
LineConsumed == pc = "loop" /\ pc' = "loop" /\ pos' > pos

\* The bytes that step consumed, and those bytes less their terminator.
Consumed == SubSeq(input, pos + 1, pos')

Body(chunk) ==
  LET n == Len(chunk)
  IN  IF n >= 2 /\ chunk[n] = LF /\ chunk[n - 1] = CR THEN SubSeq(chunk, 1, n - 2)
      ELSE IF n >= 1 /\ chunk[n] = LF THEN SubSeq(chunk, 1, n - 1)
      ELSE chunk

C5_Step ==
  LineConsumed =>
    /\ \A i \in (pos + 1)..(pos' - 1) : input[i] # LF
    /\ pos' = Len(input) \/ input[pos'] = LF
    /\ option = "Line" => freqs' = Raised(freqs, TextOf(Body(Consumed)), 1)

\* C5: a line ends at "\n" or "\r\n" (or at the end of the stream) and the
\* terminator is stripped; in Line mode every line raises by one the count of
\* the key that is its text without the terminator, so "a\n" and "a\r\n"
\* meet under the key "a".
C5_LinesAndTerminators ==
  /\ [][C5_Step]_vars
  /\ [](Returned /\ option = "Line" /\ input = <<97, LF, 97, CR, LF>>
          => result = { <<97>> :> 2 })

\* Returned in Line mode a single key counted twice, from an input with one
\* line ended by "\n" alone and one ended by "\r\n".
C5_Witness ==
  /\ Returned
  /\ option = "Line"
  /\ \E i \in 2..Len(input) : input[i] = LF /\ input[i - 1] = CR
  /\ \E i \in 2..Len(input) : input[i] = LF /\ input[i - 1] # CR
  /\ \E f \in result : \E k \in DOMAIN f : DOMAIN f = {k} /\ f[k] = 2 /\ k # <<>>

BlankLine(chunk) == chunk = <<LF>> \/ chunk = <<CR, LF>>

C6_Step ==
  (LineConsumed /\ BlankLine(Consumed)) =>
     IF option = "Line" THEN freqs' = Raised(freqs, <<>>, 1) ELSE freqs' = freqs

\* C6: the empty input returns the empty table in every mode and never
\* panics; an empty line never panics, leaves the table alone in Char and
\* Word mode and raises the count of "" by one in Line mode.
C6_EmptyInputAndLines ==
  /\ [](input = <<>> => (pc # "panicked" /\ (Returned => result = {EmptyMap})))
  /\ [](pc = "panicked" => ~BlankLine(SubSeq(input, ChunkStart, pos)))
  /\ [][C6_Step]_vars

\* Returned in Line mode a table where "" is one key among others.
C6_Witness ==
  /\ Returned
  /\ option = "Line"
  /\ \E f \in result : <<>> \in DOMAIN f /\ Cardinality(DOMAIN f) >= 2

\* C7: the default option is Word: a call with CountOption::default() ends
\* as the call with Word on the same input ends, with the same table.
C7_DefaultIsWord ==
  viaDefault => /\ option = "Word"
                /\ pc # "loop" => result = CountFn(input, "Word")

\* A call with the default option returned a table that is not empty.
C7_Witness ==
  /\ viaDefault
  /\ Returned
  /\ result # {EmptyMap}

\* The scalar values of the input outside the line terminators.
CountedScalars == { InputText[i] : i \in (1..Len(InputText)) \ TermPos(InputText) }

\* C8: in Char mode every key is one scalar value long, the keys are the
\* scalar values of the lines, one key per distinct value whatever its byte
\* length, and "ab" gives {a:1, b:1}.
C8_CharKeys ==
  /\ (Returned /\ Valid /\ option = "Char") =>
       \A f \in result :
         /\ \A k \in DOMAIN f : Len(k) = 1
         /\ DOMAIN f = { <<c>> : c \in CountedScalars }
         /\ Cardinality(DOMAIN f) = Cardinality(CountedScalars)
  /\ (Returned /\ option = "Char" /\ input = <<97, 98>>) =>
       result = { (<<97>> :> 1) @@ (<<98>> :> 1) }

\* Returned in Char mode a table with a one-byte and a two-byte scalar.
C8_Witness ==
  /\ Returned
  /\ option = "Char"
  /\ \E f \in result : <<97>> \in DOMAIN f /\ <<769>> \in DOMAIN f

\* The input is one line: no "\n" but possibly as its last byte.
OneLine == \A i \in 1..(Len(input) - 1) : input[i] # LF

EndsWithLF == Len(input) >= 1 /\ input[Len(input)] = LF

\* The input less its final "\n".
Unterminated == IF EndsWithLF THEN SubSeq(input, 1, Len(input) - 1) ELSE input

C9_Body ==
  /\ input = <<>> => result = {EmptyMap}
  /\ input = <<LF>> => result = { <<>> :> 1 }
  /\ Unterminated # <<>> => result = { TextOf(Unterminated) :> 1 }

\* C9 as stated: for every text t without "\n", Line mode on t and on
\* t + "\n" returns {t:1} when t is not empty.
C9_Original ==
  (Returned /\ Valid /\ option = "Line" /\ OneLine) => C9_Body

\* t + "\n" where t ends in "\r" is t less its "\r", ended by "\r\n".
CrBeforeFinalLF ==
  EndsWithLF /\ Len(input) >= 2 /\ input[Len(input) - 1] = CR

\* C9 amended: for every text t without "\n" that does not end in "\r",
\* Line mode on t and on t + "\n" returns {t:1} when t is not empty; "\n"
\* alone gives {"":1} and the empty stream the empty table.
C9_FinalTerminator ==
  (Returned /\ Valid /\ option = "Line" /\ OneLine /\ ~CrBeforeFinalLF) => C9_Body

\* Returned in Line mode for a non-empty text followed by a final "\n".
C9_Witness ==
  /\ Returned
  /\ option = "Line"
  /\ OneLine
  /\ EndsWithLF
  /\ Len(input) >= 3
  /\ result = { TextOf(Unterminated) :> 1 }

\* How often the unit k occurs in the line just consumed.
TimesInLine(k) == TimesIn(UnitOccs(TextOf(Consumed), option), k)

C10_Monotone ==
  /\ DOMAIN freqs \subseteq DOMAIN freqs'
  /\ \A k \in DOMAIN freqs : freqs'[k] >= freqs[k]

C10_StepOriginal ==
  (pc = "loop" /\ pc' = "loop") =>
    /\ C10_Monotone
    /\ \A k \in DOMAIN freqs' :
         IF k \in DOMAIN freqs THEN freqs'[k] = freqs[k] + TimesInLine(k)
         ELSE freqs'[k] = 1

\* C10 as stated: counts are at least 1, a line never removes a key nor
\* lowers a count, a new key enters at count 1 and an existing one grows by
\* its occurrences in the line.
C10_Original ==
  /\ [](\A k \in DOMAIN freqs : freqs[k] >= 1)
  /\ [][C10_StepOriginal]_vars

C10_Step ==
  (pc = "loop" /\ pc' = "loop") =>
    /\ C10_Monotone
    /\ \A k \in DOMAIN freqs' :
         /\ freqs'[k] = (IF k \in DOMAIN freqs THEN freqs[k] ELSE 0) + TimesInLine(k)
         /\ k \notin DOMAIN freqs => TimesInLine(k) >= 1

\* C10 amended: counts are at least 1, a line never removes a key nor
\* lowers a count, and every count grows by the occurrences of its unit in
\* the line, a new key entering at that number (1 or more).
C10_TableGrows ==
  /\ [](\A k \in DOMAIN freqs : freqs[k] >= 1)
  /\ [][C10_Step]_vars

\* In the middle of the pass, after one line that held a unit twice.
C10_Witness ==
  /\ pc = "loop"
  /\ pos > 0
  /\ pos < Len(input)
  /\ \A i \in 1..(pos - 1) : input[i] # LF
  /\ \E k \in DOMAIN freqs : freqs[k] >= 2
====
